---- MODULE Spec2Model ----
(***************************************************************************)
(* Hybrid Analysis Engine of the Brand Resonance App.                      *)
(*                                                                         *)
(* The orchestrator HybridAnalyzer.analyze and the ProcessorPipeline are   *)
(* translated from docs/hybrid_mode_extension.md (src/unnamed/part_000).   *)
(* The collaborators that the repository names but does not contain        *)
(* (stage processors, _combine_data, DataEnhancer, ConfidenceCalculator,   *)
(* _generate_metrics) are modelled from the written specification.         *)
(*                                                                         *)
(* Scores are exact rationals: a metric score is a numerator over the      *)
(* denominator ScoreDen(n), the overall score a numerator over             *)
(* 100 * ScoreDen(n), a confidence a numerator over ConfDen(n).            *)
(***************************************************************************)
EXTENDS Integers, Sequences, FiniteSets, TLC

\* ------------------------------------------------------------------ bounds
\* Largest number of items one collector returns (the code asks for 1000).
MaxItems == 1

\* Largest sample size of the datasets the confidence is probed with.
MaxSample == 5

\* Largest batch the pipeline is run on.
MaxBatch == 2

\* Brands known to the server.
MaxBrands == 2

\* Requests of one kind a page may have in flight at a time.
MaxInFlight == 2

\* Additions to the comparison list BrandDetail may have in flight at a time.
MaxAdds == 1

\* Characters of a text typed into a form field.
MaxText == 2

\* --------------------------------------------------------------- constants
\* The collectors dict of analyze_brand_hybrid, in insertion order.
Sources == <<"reddit", "twitter", "youtube", "google_trends">>

SourceSet == {Sources[i] : i \in 1..Len(Sources)}

Metrics ==
  {"conversational_depth", "community_spread", "emotional_intensity",
   "intent_signals", "advocacy_language"}

\* A wrong weight table: intent_signals entered as 35 instead of 30.
WeightsSkewed ==
  [conversational_depth |-> 10, community_spread |-> 15,
   emotional_intensity |-> 20, intent_signals |-> 35,
   advocacy_language |-> 25]

\* The five weighted metrics, in percent.
Weights ==
  [conversational_depth |-> 10, community_spread |-> 15,
   emotional_intensity |-> 20, intent_signals |-> 30,
   advocacy_language |-> 25]

\* Failure modes of a collector.
CollectorErrors ==
  {"AuthenticationError", "RateLimitError", "TransientNetworkError",
   "UnsupportedQueryError"}

\* Sample size at which the sample-size factor of the confidence saturates.
TargetCount == 3

\* Cap on the sample size that enters the blend weight of the real data.
SampleCap == 3

\* Constant k of the blend weight n / (n + k).
BlendK == 1

\* Neutral midpoint used when a metric has neither real data nor an AI value.
NeutralMidpoint == 50

\* Agreement factor, in percent, of a metric scored without the oracle.
DegradedAgreement == 50

\* The oracle is asked at most this many times (one call and one retry).
MaxOracleCalls == 2

NoError == "none"

\* The detail of the 400 response of analyze_brand_hybrid.
InvalidApiKeys == "Invalid or missing API keys"

\* The sources whose API takes a key; Google Trends takes none.
KeyedSources == {"reddit", "twitter", "youtube"}

\* The timeframe token of the request.
Timeframe == "30d"

\* The score field of one metric in an oracle response: missing, or a number.
Missing == [present |-> FALSE, score |-> 0]

Given(v) == [present |-> TRUE, score |-> v]

\* What the oracle may put in the score field of one metric.
OracleValues == {Missing} \cup {Given(v) : v \in {-10, 0, 100, 150}}

\* What the real data may measure for one metric.
MeasuredValues == {0, 100}

VARIABLES
  phase,             \* where analyze stands
  status,            \* per source: state of the collect_data call
  collected_data,    \* dict source -> list of RawItem
  processed_data,    \* dict source -> list of ProcessedItem
  combined_data,     \* <<CombinedDataset>>, or <<>> before _combine_data
  oracle_calls,      \* oracle requests sent so far
  oracle_waiting,    \* TRUE while an oracle request is outstanding
  oracle_response,   \* <<the oracle's response>>, or <<>> if none came
  enhanced_data,     \* <<output of the enhancer>>, or <<>> before enhance
  result,            \* <<the dict analyze returns>>, or <<>>
  error,             \* the exception analyze ends with, or NoError
  cancelled,         \* TRUE once the caller has cancelled the request
  api_keys,          \* request.api_keys: the sources that have a credential
  pl_input,          \* ProcessorPipeline.process: the argument data
  pl_data,           \* ProcessorPipeline.process: the local processed_data
  pl_stage,          \* ProcessorPipeline.process: processors applied so far
  probe,             \* inputs and outputs of one call of a pure function
  comparison,        \* the state of the BrandComparison page
  wizard,            \* the state of the BrandAnalysis page
  detail             \* the state of the BrandDetail page

\* The state outside one run of analyze.
pageVars == <<comparison, wizard, detail>>

otherVars == <<pl_input, pl_data, pl_stage, probe, pageVars>>

\* The state of one run of analyze.
engineVars ==
  <<phase, status, collected_data, processed_data, combined_data,
    oracle_calls, oracle_waiting, oracle_response, enhanced_data, result,
    error, cancelled, api_keys>>

vars == <<engineVars, otherVars>>

\* ------------------------------------------------------------------ helpers
Min(a, b) == IF a < b THEN a ELSE b

Max(a, b) == IF a > b THEN a ELSE b

Abs(a) == IF a < 0 THEN -a ELSE a

RECURSIVE SumOver(_, _)
SumOver(S, f) ==
  IF S = {} THEN 0
  ELSE LET x == CHOOSE y \in S : TRUE IN f[x] + SumOver(S \ {x}, f)

\* The first source of the dict that is not yet a key of d, or "none".
NextKey(d) ==
  IF \A i \in 1..Len(Sources) : Sources[i] \in DOMAIN d THEN "none"
  ELSE Sources[CHOOSE i \in 1..Len(Sources) :
                 /\ Sources[i] \notin DOMAIN d
                 /\ \A j \in 1..(i - 1) : Sources[j] \in DOMAIN d]

\* d with d[k] = v added.
Put(d, k, v) == [x \in DOMAIN d \cup {k} |-> IF x = k THEN v ELSE d[x]]

\* ----------------------------------------------------------------- collector
RawItem(s, i) == [source |-> s, external_id |-> i, text |-> "t"]

\* What collect_data(brand_name, timeframe, limit) may return for source s.
Responses(s) == {[i \in 1..n |-> RawItem(s, i)] : n \in 0..MaxItems}

\* ------------------------------------------------------------------ pipeline
\* The processors of the pipeline of analyze_brand_hybrid, in list order.
Processors ==
  <<"TextProcessor", "SentimentProcessor", "TopicProcessor", "IntentProcessor">>

\* r with the fields of new added; a field r already has keeps its value.
AddFields(r, new) ==
  [f \in DOMAIN r \cup DOMAIN new |-> IF f \in DOMAIN r THEN r[f] ELSE new[f]]

\* Text normalisation (case and surrounding blanks) of the texts of the model.
Normalize(text) ==
  CASE text = "  GOOD value " -> "good value"
    [] OTHER -> text

\* The text an annotating stage reads: the normalised one when there is one.
TextOf(r) ==
  IF "normalized_text" \in DOMAIN r /\ r.normalized_text # <<>>
    THEN r.normalized_text[1]
    ELSE r.text

\* The texts on which the sentiment classifier fails.
Unclassifiable == {"<garbled>"}

\* Polarity estimate of a text, in tenths, within [-10, 10].
Polarity(text) ==
  CASE text = "love it, buying again" -> 8
    [] text = "good value" -> 4
    [] text = "it broke, refund please" -> -8
    [] OTHER -> 0

\* The fixed cut points, in tenths, of the five sentiment labels.
SentimentLabel(score) ==
  IF score < -6 THEN "very_negative"
  ELSE IF score < -2 THEN "negative"
  ELSE IF score <= 2 THEN "neutral"
  ELSE IF score <= 6 THEN "positive"
  ELSE "very_positive"

\* Topic labels of the controlled vocabulary found in a text.
TopicsIn(text) ==
  CASE text = "love it, buying again" -> {"product"}
    [] text = "good value" -> {"price"}
    [] text = "it broke, refund please" -> {"quality"}
    [] OTHER -> {}

\* The intent category the lexical markers of a text point to.
IntentMarker(text) ==
  CASE text = "love it, buying again" -> "conversion"
    [] text = "good value" -> "consideration"
    [] text = "it broke, refund please" -> "conversion"
    [] OTHER -> "none"

\* Negative sentiment with request-like phrasing is a complaint, not an intent.
IntentOf(r) ==
  IF /\ "sentiment_score" \in DOMAIN r
     /\ r.sentiment_score # <<>>
     /\ r.sentiment_score[1] < -2
    THEN "none"
    ELSE IntentMarker(TextOf(r))

TextProcessor(data) ==
  [i \in 1..Len(data) |->
     AddFields(data[i], [normalized_text |-> <<Normalize(data[i].text)>>])]

\* A sentiment stage that drops the items the classifier fails on.
SentimentProcessorDropping(data) ==
  LET kept == SelectSeq(data, LAMBDA r : TextOf(r) \notin Unclassifiable)
  IN [i \in 1..Len(kept) |->
        AddFields(kept[i],
          [sentiment_score |-> <<Polarity(TextOf(kept[i]))>>,
           sentiment_label |-> <<SentimentLabel(Polarity(TextOf(kept[i])))>>])]

\* An item the classifier fails on gets its sentiment fields marked unknown.
SentimentProcessor(data) ==
  [i \in 1..Len(data) |->
     AddFields(data[i],
       IF TextOf(data[i]) \in Unclassifiable
         THEN [sentiment_score |-> <<>>, sentiment_label |-> <<>>]
         ELSE [sentiment_score |-> <<Polarity(TextOf(data[i]))>>,
               sentiment_label |->
                 <<SentimentLabel(Polarity(TextOf(data[i])))>>])]

TopicProcessor(data) ==
  [i \in 1..Len(data) |->
     AddFields(data[i], [topics |-> <<TopicsIn(TextOf(data[i]))>>])]

IntentProcessor(data) ==
  [i \in 1..Len(data) |->
     AddFields(data[i], [intent_category |-> <<IntentOf(data[i])>>])]

\* processor.process(data) of the processor of the given name.
ApplyProcessor(name, data) ==
  CASE name = "TextProcessor" -> TextProcessor(data)
    [] name = "SentimentProcessor" -> SentimentProcessor(data)
    [] name = "TopicProcessor" -> TopicProcessor(data)
    [] name = "IntentProcessor" -> IntentProcessor(data)

\* ProcessorPipeline.process: every processor of the list, in list order.
PipelineProcess(data) ==
  IntentProcessor(TopicProcessor(SentimentProcessor(TextProcessor(data))))

\* One value for four metrics and another for the fifth: the five-metric
\* vectors over V that the model draws its inputs from.
Vectors(V) ==
  {[m \in Metrics |-> IF m = dm THEN dv ELSE bv] :
     bv \in V, dv \in V, dm \in Metrics}

\* ------------------------------------------------------------------ combiner
CountOf(d) == [s \in DOMAIN d |-> Len(d[s])]

\* Measured per-metric scores the real data may give: none without items.
MeasuredChoices(total) ==
  IF total = 0 THEN {[m \in Metrics |-> 0]} ELSE Vectors(MeasuredValues)

SentimentLabels ==
  {"very_negative", "negative", "neutral", "positive", "very_positive"}

\* Number of items of one dataset that carry the sentiment label l.
LabelCount(dataset, l) ==
  Cardinality({i \in 1..Len(dataset) :
                 /\ "sentiment_label" \in DOMAIN dataset[i]
                 /\ dataset[i].sentiment_label = <<l>>})

RECURSIVE ProductOver(_, _)
ProductOver(S, f) ==
  IF S = {} THEN 1
  ELSE LET x == CHOOSE y \in S : TRUE IN f[x] * ProductOver(S \ {x}, f)

\* A combiner that averages the per-source shares, one vote per source.
CombineDataBySource(processed, measured) ==
  LET counts == CountOf(processed)
      used == {s \in DOMAIN processed : counts[s] > 0}
  IN [datasets |-> processed,
      counts |-> counts,
      total |-> SumOver(DOMAIN processed, counts),
      sentiment |->
        [l \in SentimentLabels |->
           SumOver(used,
             [s \in used |->
                LabelCount(processed[s], l) * ProductOver(used \ {s}, counts)])],
      sentiment_den |-> Cardinality(used) * ProductOver(used, counts),
      measured |-> measured]

\* _combine_data: the per-source datasets with their cross-source aggregates;
\* the share of label l is sentiment[l] / sentiment_den, every item one vote.
CombineData(processed, measured) ==
  [datasets |-> processed,
   counts |-> CountOf(processed),
   total |-> SumOver(DOMAIN processed, CountOf(processed)),
   sentiment |->
     [l \in SentimentLabels |->
        SumOver(DOMAIN processed,
                [s \in DOMAIN processed |-> LabelCount(processed[s], l)])],
   sentiment_den |-> SumOver(DOMAIN processed, CountOf(processed)),
   measured |-> measured]

\* ------------------------------------------------------------------ enhancer
Clamp(x, lo, hi) == Max(lo, Min(x, hi))

\* The oracle's score is used only when it is there and within [0,100].
ValidScore(e) == e.present /\ e.score >= 0 /\ e.score <= 100

\* Denominator of every metric score of an analysis with n real items.
ScoreDen(n) == Min(n, SampleCap) + BlendK

\* An enhancer that trusts whatever number the oracle sends.
EnhancedScoreTrusting(combined, reply, answered, m) ==
  LET n == combined.total
      nc == Min(n, SampleCap)
      den == ScoreDen(n)
      hasAI == answered /\ reply[m].present
      ai == reply[m].score
  IN IF n > 0 /\ hasAI THEN nc * combined.measured[m] + BlendK * ai
     ELSE IF n > 0 THEN combined.measured[m] * den
     ELSE IF hasAI THEN ai * den
     ELSE NeutralMidpoint * den

\* Weight of the measured value, over ScoreDen(n): the capped sample size.
RealWeight(n) == Min(n, SampleCap)

\* Weight of the AI value, over ScoreDen(n): the residual.
AIWeight(n) == ScoreDen(n) - RealWeight(n)

\* An enhancer in which the AI value replaces the measured one.
EnhancedScoreAIOverwrites(combined, reply, answered, m) ==
  LET n == combined.total
      den == ScoreDen(n)
      hasAI == answered /\ ValidScore(reply[m])
  IN IF hasAI THEN reply[m].score * den
     ELSE IF n > 0 THEN combined.measured[m] * den
     ELSE NeutralMidpoint * den

\* Numerator of the enhanced score of metric m over ScoreDen(total): the
\* blend of the measured and the AI value, either alone, or the midpoint.
EnhancedScore(combined, reply, answered, m) ==
  LET n == combined.total
      den == ScoreDen(n)
      hasAI == answered /\ ValidScore(reply[m])
      ai == reply[m].score
      raw == IF n > 0 /\ hasAI
               THEN RealWeight(n) * combined.measured[m] + AIWeight(n) * ai
             ELSE IF n > 0 THEN combined.measured[m] * den
             ELSE IF hasAI THEN ai * den
             ELSE NeutralMidpoint * den
  IN Clamp(raw, 0, 100 * den)

\* DataEnhancer.enhance; answered is FALSE when the oracle gave no response.
Enhance(combined, reply, answered) ==
  [scores |-> [m \in Metrics |-> EnhancedScore(combined, reply, answered, m)],
   den |-> ScoreDen(combined.total),
   ai_used |-> [m \in Metrics |-> answered /\ ValidScore(reply[m])],
   degraded |-> ~answered]

\* ------------------------------------------------------- confidence calculator
\* Denominator of every confidence score of an analysis with n real items.
ConfDen(n) == TargetCount * Len(Sources) * 100 * ScoreDen(n)

\* A sample-size factor that is a constant.
SampleFactorConstant(combined) == TargetCount

\* Numerator over TargetCount of min(1, count / target_count).
SampleFactor(combined) == Min(combined.total, TargetCount)

DiversityFactor(combined) ==
  Cardinality({s \in DOMAIN combined.counts : combined.counts[s] > 0})

\* An agreement factor that never looks at the degraded flag.
AgreementFactorBlind(combined, enhanced, m) ==
  IF combined.total = 0 THEN 100 * enhanced.den
  ELSE 100 * enhanced.den
         - Abs(combined.measured[m] * enhanced.den - enhanced.scores[m])

\* Numerator over 100 * den of 1 minus the divergence between the measured
\* and the enhanced score; without an oracle response there is no AI score to
\* agree with and the factor is DegradedAgreement percent.
AgreementFactor(combined, enhanced, m) ==
  IF enhanced.degraded THEN DegradedAgreement * enhanced.den
  ELSE IF combined.total = 0 THEN 100 * enhanced.den
  ELSE 100 * enhanced.den
         - Abs(combined.measured[m] * enhanced.den - enhanced.scores[m])

\* A calculator that reports the agreement factor alone.
CalculateAgreementOnly(combined, enhanced) ==
  [m \in Metrics |->
     TargetCount * Len(Sources) * AgreementFactor(combined, enhanced, m)]

\* A calculator that skips the sample and diversity factors without items.
CalculateFullWithoutData(combined, enhanced) ==
  [m \in Metrics |->
     IF combined.total = 0
       THEN TargetCount * Len(Sources) * AgreementFactor(combined, enhanced, m)
       ELSE SampleFactor(combined) * DiversityFactor(combined)
              * AgreementFactor(combined, enhanced, m)]

\* ConfidenceCalculator.calculate: numerators over ConfDen(total).
Calculate(combined, enhanced) ==
  [m \in Metrics |->
     SampleFactor(combined) * DiversityFactor(combined)
       * AgreementFactor(combined, enhanced, m)]

\* ------------------------------------------------------------------ aggregator
\* _generate_metrics: the five metric results and the weighted overall score
\* (numerator over 100 * den).
GenerateMetrics(enhanced, confidence) ==
  [scores |-> enhanced.scores,
   den |-> enhanced.den,
   overall_score |->
     Clamp(SumOver(Metrics, [m \in Metrics |-> Weights[m] * enhanced.scores[m]]),
           0, 100 * 100 * enhanced.den)]

\* A key list that leaves out the sources that returned no item.
KeysWithItems(d) ==
  SelectSeq(Sources, LAMBDA s : s \in DOMAIN d /\ Len(d[s]) > 0)

\* list(d.keys()): the keys of d in insertion order.
Keys(d) == SelectSeq(Sources, LAMBDA s : s \in DOMAIN d)

\* -------------------------------------------------- pages, as first rendered
\* The ids of the brands the server knows.
BrandIds == 1..MaxBrands

\* useState(null) is <<>>; a state that holds v is <<v>>.
Null == <<>>

\* BrandComparison after its first render: the effect has called getBrands.
ComparisonInit ==
  comparison =
    [brands |-> {}, selectedBrands |-> {}, loading |-> TRUE,
     comparing |-> FALSE, error |-> Null, comparisonResult |-> Null,
     fetching |-> TRUE, requests |-> <<>>, event |-> "mount"]

\* The initial formData of BrandAnalysis; a text is a sequence of characters.
EmptyForm ==
  [brand_name |-> <<>>, industry |-> <<>>, additional_context |-> <<>>,
   mode |-> "ai"]

\* BrandAnalysis after its first render.
WizardInit ==
  wizard =
    [activeStep |-> 0, loading |-> FALSE, error |-> Null, result |-> Null,
     formData |-> EmptyForm, requests |-> <<>>, event |-> "mount"]

\* The metrics object with every one of the five metrics at v.
MetricsAt(v) == [m \in Metrics |-> v]

\* The six secondary analysis states of BrandDetail.
AnalysisStates ==
  {"topicAnalysis", "sentimentAnalysis", "advocacyAnalysis",
   "geographicSpread", "demographicSpread", "intentAnalysis"}

\* One run of fetchData for brand b, about to await getBrand; closure is the
\* brandsForComparison of the render whose effect started the run.
FetchStarted(b, closure) ==
  [brandId |-> b, pc |-> "getBrand", closure |-> closure, brandData |-> Null,
   resultsData |-> <<>>]

\* BrandDetail after its first render on the route of brand b: the effect has
\* called fetchData.
DetailMounted(b) ==
  [brandId |-> b, loading |-> TRUE, error |-> Null, brand |-> Null,
   results |-> <<>>, latestResult |-> Null,
   analyses |-> [a \in AnalysisStates |-> Null],
   allBrands |-> {}, comparisonBrandId |-> 0, brandsForComparison |-> <<>>,
   fetches |-> <<FetchStarted(b, <<>>)>>, adds |-> <<>>, outcome |-> "none"]

DetailInit == detail = DetailMounted(1)

PagesInit == ComparisonInit /\ WizardInit /\ DetailInit

\* ------------------------------------------------------------- orchestrator
EngineInit ==
  /\ phase = "COLLECTING"
  /\ status = [s \in SourceSet |-> "idle"]
  /\ collected_data = <<>>
  /\ processed_data = <<>>
  /\ combined_data = <<>>
  /\ oracle_calls = 0
  /\ oracle_waiting = FALSE
  /\ oracle_response = <<>>
  /\ enhanced_data = <<>>
  /\ result = <<>>
  /\ error = NoError
  /\ cancelled = FALSE

\* A request arrives with the credentials of some of the sources.
Init ==
  /\ EngineInit
  /\ api_keys \in SUBSET KeyedSources
  /\ pl_input = <<>>
  /\ pl_data = <<>>
  /\ pl_stage = 0
  /\ probe = [op |-> "none"]
  /\ PagesInit

\* The collector of source s was built with a credential, or needs none.
HasCredential(s) == s \in api_keys \/ s \notin KeyedSources

\* validate_api_keys turns the request down: the handler raises 400 before
\* any collector is built.
RejectApiKeys ==
  /\ phase = "COLLECTING"
  /\ \A s \in SourceSet : status[s] = "idle"
  /\ ~cancelled
  /\ \E s \in SourceSet : ~HasCredential(s)
  /\ error' = InvalidApiKeys
  /\ phase' = "FAILED"
  /\ UNCHANGED <<otherVars, api_keys,
                 status, collected_data, processed_data, combined_data,
                 oracle_calls, oracle_waiting, oracle_response, enhanced_data,
                 result, cancelled>>

\* The collectors dict holds a collector for every source, with or without a
\* credential, and analyze calls each of them in turn.
CallCollector ==
  /\ phase = "COLLECTING"
  /\ \A s \in SourceSet : status[s] \in {"idle", "returned"}
  /\ NextKey(collected_data) # "none"
  /\ status' = [status EXCEPT ![NextKey(collected_data)] = "running"]
  /\ UNCHANGED <<otherVars, api_keys,
                 phase, collected_data, processed_data, combined_data,
                 oracle_calls, oracle_waiting, oracle_response, enhanced_data,
                 result, error, cancelled>>

\* A collector whose items are handed to the pipeline as soon as they arrive.
CollectorReturnsStreaming ==
  \E s \in SourceSet : \E data \in Responses(s) :
    /\ status[s] = "running"
    /\ HasCredential(s)
    /\ collected_data' = Put(collected_data, s, data)
    /\ status' = [status EXCEPT ![s] = "returned"]
    /\ phase' = "PROCESSING"
    /\ UNCHANGED <<otherVars, api_keys,
                   processed_data, combined_data, oracle_calls, oracle_waiting,
                   oracle_response, enhanced_data, result, error, cancelled>>

\* collect_data returns its items; after the last collector the loop ends.
CollectorReturns ==
  \E s \in SourceSet : \E data \in Responses(s) :
    /\ status[s] = "running"
    /\ HasCredential(s)
    /\ collected_data' = Put(collected_data, s, data)
    /\ status' = [status EXCEPT ![s] = "returned"]
    /\ phase' = IF NextKey(collected_data') = "none" THEN "PROCESSING"
                ELSE phase
    /\ UNCHANGED <<otherVars, api_keys,
                   processed_data, combined_data, oracle_calls, oracle_waiting,
                   oracle_response, enhanced_data, result, error, cancelled>>

\* collect_data raises: nothing in analyze catches it, so analyze ends with it.
CollectorRaises ==
  \E s \in SourceSet : \E e \in CollectorErrors :
    /\ status[s] = "running"
    /\ ~HasCredential(s) => e = "AuthenticationError"
    /\ status' = [status EXCEPT ![s] = "raised"]
    /\ error' = e
    /\ phase' = "FAILED"
    /\ UNCHANGED <<otherVars, api_keys,
                   collected_data, processed_data, combined_data, oracle_calls,
                   oracle_waiting, oracle_response, enhanced_data, result,
                   cancelled>>

\* The source never answers; collect_data is a blocking call without timeout.
CollectorHangs ==
  \E s \in SourceSet :
    /\ status[s] = "running"
    /\ HasCredential(s)
    /\ status' = [status EXCEPT ![s] = "hung"]
    /\ UNCHANGED <<otherVars, api_keys,
                   phase, collected_data, processed_data, combined_data,
                   oracle_calls, oracle_waiting, oracle_response, enhanced_data,
                   result, error, cancelled>>

\* A processing loop that asks the oracle about every source.
ProcessSourceAskingOracle ==
  /\ phase = "PROCESSING"
  /\ NextKey(processed_data) # "none"
  /\ processed_data' =
       Put(processed_data, NextKey(processed_data),
           PipelineProcess(collected_data[NextKey(processed_data)]))
  /\ oracle_calls' = oracle_calls + 1
  /\ phase' = IF NextKey(processed_data') = "none" THEN "COMBINING" ELSE phase
  /\ UNCHANGED <<otherVars, api_keys,
                 status, collected_data, combined_data,
                 oracle_waiting, oracle_response, enhanced_data, result, error,
                 cancelled>>

\* The pipeline processes the data of the next source of collected_data.
ProcessSource ==
  /\ phase = "PROCESSING"
  /\ NextKey(processed_data) # "none"
  /\ processed_data' =
       Put(processed_data, NextKey(processed_data),
           PipelineProcess(collected_data[NextKey(processed_data)]))
  /\ phase' = IF NextKey(processed_data') = "none" THEN "COMBINING" ELSE phase
  /\ UNCHANGED <<otherVars, api_keys,
                 status, collected_data, combined_data, oracle_calls,
                 oracle_waiting, oracle_response, enhanced_data, result, error,
                 cancelled>>

\* A combine step after which the enhancer is never called.
CombineSkippingEnhancer ==
  /\ phase = "COMBINING"
  /\ \E measured \in
        MeasuredChoices(SumOver(DOMAIN processed_data, CountOf(processed_data))) :
       /\ combined_data' = <<CombineData(processed_data, measured)>>
       /\ enhanced_data' =
            <<Enhance(CombineData(processed_data, measured),
                      [m \in Metrics |-> Missing], FALSE)>>
  /\ phase' = "SCORING"
  /\ UNCHANGED <<otherVars, api_keys,
                 status, collected_data, processed_data, oracle_calls,
                 oracle_waiting, oracle_response, result, error, cancelled>>

\* combined_data = self._combine_data(processed_data)
Combine ==
  /\ phase = "COMBINING"
  /\ \E measured \in
        MeasuredChoices(SumOver(DOMAIN processed_data, CountOf(processed_data))) :
       combined_data' = <<CombineData(processed_data, measured)>>
  /\ phase' = "ENHANCING"
  /\ UNCHANGED <<otherVars, api_keys,
                 status, collected_data, processed_data, oracle_calls,
                 oracle_waiting, oracle_response, enhanced_data, result, error,
                 cancelled>>

\* The enhancer sends its request to the oracle (first call or the retry).
CallOracle ==
  /\ phase = "ENHANCING"
  /\ ~oracle_waiting
  /\ oracle_calls < MaxOracleCalls
  /\ oracle_calls' = oracle_calls + 1
  /\ oracle_waiting' = TRUE
  /\ UNCHANGED <<otherVars, api_keys,
                 phase, status, collected_data, processed_data, combined_data,
                 oracle_response, enhanced_data, result, error, cancelled>>

\* The oracle responds; enhance returns the blended metrics.
OracleResponds ==
  /\ phase = "ENHANCING"
  /\ oracle_waiting
  /\ \E reply \in Vectors(OracleValues) :
       /\ oracle_response' = <<reply>>
       /\ enhanced_data' = <<Enhance(combined_data[1], reply, TRUE)>>
  /\ oracle_waiting' = FALSE
  /\ phase' = "SCORING"
  /\ UNCHANGED <<otherVars, api_keys,
                 status, collected_data, processed_data, combined_data,
                 oracle_calls, result, error, cancelled>>

\* The oracle times out or errors: one retry, then the degraded path.
OracleFails ==
  /\ phase = "ENHANCING"
  /\ oracle_waiting
  /\ oracle_waiting' = FALSE
  /\ IF oracle_calls < MaxOracleCalls
       THEN UNCHANGED <<phase, enhanced_data>>
       ELSE /\ enhanced_data' =
                 <<Enhance(combined_data[1], [m \in Metrics |-> Missing], FALSE)>>
            /\ phase' = "SCORING"
  /\ UNCHANGED <<otherVars, api_keys,
                 status, collected_data, processed_data, combined_data,
                 oracle_calls, oracle_response, result, error, cancelled>>

\* Confidence scores, final metrics and the returned dict.
Score ==
  /\ phase = "SCORING"
  /\ LET confidence_scores == Calculate(combined_data[1], enhanced_data[1])
         metrics == GenerateMetrics(enhanced_data[1], confidence_scores)
     IN result' = <<[metrics |-> metrics,
                     confidence_scores |-> confidence_scores,
                     data_sources |-> Keys(collected_data),
                     data_counts |-> CountOf(collected_data),
                     timeframe |-> Timeframe]>>
  /\ phase' = "DONE"
  /\ UNCHANGED <<otherVars, api_keys,
                 status, collected_data, processed_data, combined_data,
                 oracle_calls, oracle_waiting, oracle_response, enhanced_data,
                 error, cancelled>>

\* The caller cancels the request in flight; analyze has no way to see it.
Cancel ==
  /\ phase \notin {"DONE", "FAILED"}
  /\ ~cancelled
  /\ cancelled' = TRUE
  /\ UNCHANGED <<otherVars, api_keys,
                 phase, status, collected_data, processed_data, combined_data,
                 oracle_calls, oracle_waiting, oracle_response, enhanced_data,
                 result, error>>

Next ==
  \/ RejectApiKeys
  \/ CallCollector
  \/ CollectorReturns
  \/ CollectorRaises
  \/ CollectorHangs
  \/ ProcessSource
  \/ Combine
  \/ CallOracle
  \/ OracleResponds
  \/ OracleFails
  \/ Score
  \/ Cancel

Spec == Init /\ [][Next]_vars

\* Every step analyze or its environment can take is eventually taken.
FairSpec == Spec /\ WF_vars(Next)

\* ------------------------------------------------------- pipeline, stepwise
\* The texts of the items the pipeline is run on.
PipelineTexts ==
  {"t", "  GOOD value ", "love it, buying again", "it broke, refund please",
   "<garbled>"}

\* The batches of at most MaxBatch raw items of one source.
Batches ==
  UNION {{[i \in 1..n |->
             [source |-> "reddit", external_id |-> i, text |-> texts[i]]] :
            texts \in [1..n -> PipelineTexts]} : n \in 0..MaxBatch}

\* process(data) is entered: processed_data = data.
PipelineInit ==
  /\ EngineInit
  /\ api_keys = KeyedSources
  /\ probe = [op |-> "none"]
  /\ pl_input \in Batches
  /\ pl_data = pl_input
  /\ pl_stage = 0
  /\ PagesInit

\* A loop body that hands every processor the raw data.
PipelineStepFromRaw ==
  /\ pl_stage < Len(Processors)
  /\ pl_stage' = pl_stage + 1
  /\ pl_data' = ApplyProcessor(Processors[pl_stage + 1], pl_input)
  /\ UNCHANGED <<engineVars, pl_input, probe, pageVars>>

\* One turn of the loop: processed_data = processor.process(processed_data).
PipelineStep ==
  /\ pl_stage < Len(Processors)
  /\ pl_stage' = pl_stage + 1
  /\ pl_data' = ApplyProcessor(Processors[pl_stage + 1], pl_data)
  /\ UNCHANGED <<engineVars, pl_input, probe, pageVars>>

PipelineNext == PipelineStep

\* One call of ProcessorPipeline.process on a drawn batch.
PipelineSpec == PipelineInit /\ [][PipelineNext]_vars

\* ---------------------------------------------------------- BrandComparison
\* No run of analyze, of the pipeline or of a pure function is under way.
BackendIdle ==
  /\ EngineInit
  /\ api_keys = KeyedSources
  /\ pl_input = <<>>
  /\ pl_data = <<>>
  /\ pl_stage = 0
  /\ probe = [op |-> "none"]

\* A page is first rendered while the backend is idle.
PageInit == BackendIdle /\ PagesInit

SelectTwoMessage == "Please select at least two brands to compare."

CompareFailedMessage == "Failed to compare brands. Please try again later."

LoadBrandsFailedMessage == "Failed to load brands. Please try again later."

\* The sequence q without its i-th element.
RemoveAt(q, i) == [j \in 1..(Len(q) - 1) |-> IF j < i THEN q[j] ELSE q[j + 1]]

\* getBrands answers with the brands the server holds.
FetchBrandsReturns ==
  /\ comparison.fetching
  /\ \E data \in SUBSET BrandIds :
       comparison' = [comparison EXCEPT !.brands = data, !.loading = FALSE,
                                        !.fetching = FALSE,
                                        !.event = "fetchBrands"]
  /\ UNCHANGED <<engineVars, pl_input, pl_data, pl_stage, probe, wizard,
                 detail>>

\* getBrands throws.
FetchBrandsFails ==
  /\ comparison.fetching
  /\ comparison' = [comparison EXCEPT !.error = <<LoadBrandsFailedMessage>>,
                                      !.loading = FALSE, !.fetching = FALSE,
                                      !.event = "fetchBrands"]
  /\ UNCHANGED <<engineVars, pl_input, pl_data, pl_stage, probe, wizard,
                 detail>>

\* The Select, disabled while loading, reports the set of chosen menu items.
HandleBrandChange ==
  /\ ~comparison.loading
  /\ \E value \in SUBSET comparison.brands :
       /\ value # comparison.selectedBrands
       /\ comparison' = [comparison EXCEPT !.selectedBrands = value,
                                           !.event = "handleBrandChange"]
  /\ UNCHANGED <<engineVars, pl_input, pl_data, pl_stage, probe, wizard,
                 detail>>

\* handleCompare with its guard off by one: one selected brand is enough.
HandleCompareOffByOne ==
  /\ Len(comparison.requests) < MaxInFlight
  /\ IF Cardinality(comparison.selectedBrands) < 1
       THEN comparison' = [comparison EXCEPT !.error = <<SelectTwoMessage>>,
                                            !.event = "handleCompare"]
       ELSE comparison' =
              [comparison EXCEPT
                 !.comparing = TRUE, !.error = Null,
                 !.requests = Append(@, comparison.selectedBrands),
                 !.event = "handleCompare"]
  /\ UNCHANGED <<engineVars, pl_input, pl_data, pl_stage, probe, wizard,
                 detail>>

\* handleCompare up to its await, called whatever the state of the button.
HandleCompare ==
  /\ Len(comparison.requests) < MaxInFlight
  /\ IF Cardinality(comparison.selectedBrands) < 2
       THEN comparison' = [comparison EXCEPT !.error = <<SelectTwoMessage>>,
                                            !.event = "handleCompare"]
       ELSE comparison' =
              [comparison EXCEPT
                 !.comparing = TRUE, !.error = Null,
                 !.requests = Append(@, comparison.selectedBrands),
                 !.event = "handleCompare"]
  /\ UNCHANGED <<engineVars, pl_input, pl_data, pl_stage, probe, wizard,
                 detail>>

\* compareBrands answers: the rest of the try block of handleCompare.
CompareReturns ==
  /\ \E i \in 1..Len(comparison.requests) :
       comparison' =
         [comparison EXCEPT
            !.comparisonResult = <<[brands |-> comparison.requests[i]]>>,
            !.comparing = FALSE, !.requests = RemoveAt(@, i),
            !.event = "compareBrands"]
  /\ UNCHANGED <<engineVars, pl_input, pl_data, pl_stage, probe, wizard,
                 detail>>

\* compareBrands throws: the catch block of handleCompare.
CompareFails ==
  /\ \E i \in 1..Len(comparison.requests) :
       comparison' =
         [comparison EXCEPT
            !.error = <<CompareFailedMessage>>, !.comparing = FALSE,
            !.requests = RemoveAt(@, i), !.event = "compareBrands"]
  /\ UNCHANGED <<engineVars, pl_input, pl_data, pl_stage, probe, wizard,
                 detail>>

ComparisonNext ==
  \/ FetchBrandsReturns
  \/ FetchBrandsFails
  \/ HandleBrandChange
  \/ HandleCompare
  \/ CompareReturns
  \/ CompareFails

\* The BrandComparison page from its first render on.
ComparisonSpec == PageInit /\ [][ComparisonNext]_vars

\* ------------------------------------------------------------ BrandAnalysis
AnalyzeFailedMessage == "Failed to analyze brand. Please try again later."

\* steps.length
StepCount == 3

\* The texts a user may type: up to MaxText characters, blanks among them.
Texts == UNION {[1..n -> {" ", "a"}] : n \in 0..MaxText}

\* Two of the entries of the industries list.
Industries == {<<"M", "e", "d", "i", "a">>, <<"O", "t", "h", "e", "r">>}

\* String.prototype.trim: the text without its leading and trailing blanks.
RECURSIVE Trim(_)
Trim(t) ==
  IF t = <<>> THEN t
  ELSE IF Head(t) = " " THEN Trim(Tail(t))
  ELSE IF t[Len(t)] = " " THEN Trim(SubSeq(t, 1, Len(t) - 1))
  ELSE t

\* A validateStep that compares the fields without trimming them.
ValidateStepUntrimmed ==
  IF wizard.activeStep = 0
    THEN wizard.formData.brand_name # <<>> /\ wizard.formData.industry # <<>>
    ELSE TRUE

ValidateStep ==
  IF wizard.activeStep = 0
    THEN /\ Trim(wizard.formData.brand_name) # <<>>
         /\ Trim(wizard.formData.industry) # <<>>
    ELSE TRUE

\* The fields are rendered on step 0 only, and not while loading.
HandleInputChange ==
  /\ wizard.activeStep = 0
  /\ ~wizard.loading
  /\ \E name \in {"brand_name", "industry", "additional_context"} :
       \E value \in (IF name = "industry" THEN Industries ELSE Texts) :
         /\ value # wizard.formData[name]
         /\ wizard' = [wizard EXCEPT !.formData[name] = value,
                                     !.event = "handleInputChange"]
  /\ UNCHANGED <<engineVars, pl_input, pl_data, pl_stage, probe, comparison,
                 detail>>

\* The right button on step 0 is Next, disabled unless validateStep().
HandleNext ==
  /\ wizard.activeStep = StepCount - 3
  /\ ValidateStep
  /\ ~wizard.loading
  /\ wizard' = [wizard EXCEPT !.activeStep = @ + 1, !.event = "handleNext"]
  /\ UNCHANGED <<engineVars, pl_input, pl_data, pl_stage, probe, comparison,
                 detail>>

\* The left button is Back on steps 1 and 2 (Cancel on step 0).
HandleBack ==
  /\ wizard.activeStep # 0
  /\ ~wizard.loading
  /\ wizard' = [wizard EXCEPT !.activeStep = @ - 1, !.event = "handleBack"]
  /\ UNCHANGED <<engineVars, pl_input, pl_data, pl_stage, probe, comparison,
                 detail>>

\* An Analyze button that stays enabled while a request is in flight.
HandleSubmitWhileLoading ==
  /\ wizard.activeStep = StepCount - 2
  /\ ValidateStep
  /\ wizard' = [wizard EXCEPT !.loading = TRUE, !.error = Null,
                              !.requests = Append(@, wizard.formData),
                              !.event = "handleSubmit"]
  /\ UNCHANGED <<engineVars, pl_input, pl_data, pl_stage, probe, comparison,
                 detail>>

\* The right button on step 1 is Analyze Brand: handleSubmit up to its await.
HandleSubmit ==
  /\ wizard.activeStep = StepCount - 2
  /\ ValidateStep
  /\ ~wizard.loading
  /\ wizard' = [wizard EXCEPT !.loading = TRUE, !.error = Null,
                              !.requests = Append(@, wizard.formData),
                              !.event = "handleSubmit"]
  /\ UNCHANGED <<engineVars, pl_input, pl_data, pl_stage, probe, comparison,
                 detail>>

\* A success path that moves to the results step without storing the result.
AnalyzeReturnsWithoutResult ==
  /\ \E i \in 1..Len(wizard.requests) :
       wizard' = [wizard EXCEPT !.activeStep = 2, !.loading = FALSE,
                                !.requests = RemoveAt(@, i),
                                !.event = "analyzeBrand returned"]
  /\ UNCHANGED <<engineVars, pl_input, pl_data, pl_stage, probe, comparison,
                 detail>>

\* analyzeBrand answers: the rest of the try block of handleSubmit.
AnalyzeReturns ==
  /\ \E i \in 1..Len(wizard.requests) : \E id \in BrandIds :
       wizard' =
         [wizard EXCEPT
            !.result = <<[brand_id |-> id,
                          brand_name |-> wizard.requests[i].brand_name]>>,
            !.activeStep = 2, !.loading = FALSE,
            !.requests = RemoveAt(@, i), !.event = "analyzeBrand returned"]
  /\ UNCHANGED <<engineVars, pl_input, pl_data, pl_stage, probe, comparison,
                 detail>>

\* A catch block that also sends the wizard back to its first step.
AnalyzeFailsAndRestarts ==
  /\ \E i \in 1..Len(wizard.requests) :
       wizard' = [wizard EXCEPT !.error = <<AnalyzeFailedMessage>>,
                                !.activeStep = 0, !.loading = FALSE,
                                !.requests = RemoveAt(@, i),
                                !.event = "analyzeBrand failed"]
  /\ UNCHANGED <<engineVars, pl_input, pl_data, pl_stage, probe, comparison,
                 detail>>

\* analyzeBrand throws: the catch block of handleSubmit.
AnalyzeFails ==
  /\ \E i \in 1..Len(wizard.requests) :
       wizard' = [wizard EXCEPT !.error = <<AnalyzeFailedMessage>>,
                                !.loading = FALSE,
                                !.requests = RemoveAt(@, i),
                                !.event = "analyzeBrand failed"]
  /\ UNCHANGED <<engineVars, pl_input, pl_data, pl_stage, probe, comparison,
                 detail>>

WizardNext ==
  \/ HandleInputChange
  \/ HandleNext
  \/ HandleBack
  \/ HandleSubmit
  \/ AnalyzeReturns
  \/ AnalyzeFails

\* The BrandAnalysis page from its first render on.
WizardSpec == PageInit /\ [][WizardNext]_vars

\* -------------------------------------------------------------- BrandDetail
LoadDetailFailedMessage ==
  "Failed to load brand details. Please try again later."

\* What getBrand(b) answers.
ServerBrand(b) == [id |-> b]

\* What getResults(b) may answer: no result for a brand not analysed yet, or
\* the results of the brand, two of them, the older one first.
ServerResults(b) ==
  {<<>>,
   <<[brand_id |-> b, timestamp |-> 1, metrics |-> MetricsAt(10 * b + 1)],
     [brand_id |-> b, timestamp |-> 2, metrics |-> MetricsAt(10 * b + 2)]>>}

\* sortedResults[0]: the result with the greatest timestamp.
LatestOf(resultsData) ==
  resultsData[CHOOSE i \in 1..Len(resultsData) :
                \A j \in 1..Len(resultsData) :
                  resultsData[j].timestamp <= resultsData[i].timestamp]

\* The five metrics copied one by one out of a result.
MetricsOf(r) ==
  [conversational_depth |-> r.metrics.conversational_depth,
   community_spread |-> r.metrics.community_spread,
   emotional_intensity |-> r.metrics.emotional_intensity,
   intent_signals |-> r.metrics.intent_signals,
   advocacy_language |-> r.metrics.advocacy_language]

\* The page shows its tabs: not loading, no error, a brand.
DetailShown == ~detail.loading /\ detail.error = Null /\ detail.brand # Null

\* The other two pages and the backend stay as they are.
DetailOnly ==
  UNCHANGED <<engineVars, pl_input, pl_data, pl_stage, probe, comparison,
              wizard>>

\* The route changes to another brand while the page stays mounted: the
\* effect runs fetchData again, which closes over the state of that render.
RouteChange ==
  /\ Len(detail.fetches) < MaxInFlight
  /\ \E b \in BrandIds \ {detail.brandId} :
       detail' =
         [detail EXCEPT
            !.brandId = b, !.loading = TRUE,
            !.fetches = Append(@, FetchStarted(b, detail.brandsForComparison))]
  /\ DetailOnly

\* The route changes once the fetch of the previous route has ended.
RouteChangeWhenLoaded ==
  /\ detail.fetches = <<>>
  /\ RouteChange

\* getBrand answers: setBrand(brandData).
FetchBrandReturns ==
  /\ \E i \in 1..Len(detail.fetches) :
       LET f == detail.fetches[i] IN
       /\ f.pc = "getBrand"
       /\ detail' =
            [detail EXCEPT
               !.brand = <<ServerBrand(f.brandId)>>,
               !.fetches[i].brandData = <<ServerBrand(f.brandId)>>,
               !.fetches[i].pc = "getResults"]
  /\ DetailOnly

\* getResults answers: setResults(resultsData).
FetchResultsReturn ==
  /\ \E i \in 1..Len(detail.fetches) :
       LET f == detail.fetches[i] IN
       /\ f.pc = "getResults"
       /\ \E resultsData \in ServerResults(f.brandId) :
            detail' =
              [detail EXCEPT
                 !.results = resultsData,
                 !.fetches[i].resultsData = resultsData,
                 !.fetches[i].pc = "getBrands"]
  /\ DetailOnly

\* The list fetchData leaves in brandsForComparison: the current brand with
\* zero metrics, then, when there is a result and the closed-over list is not
\* empty, that list with the metrics of its first entry replaced.
ComparisonAfterFetch(f) ==
  LET current == <<[id |-> f.brandData[1].id, metrics |-> MetricsAt(0)]>>
  IN IF Len(f.resultsData) > 0 /\ Len(f.closure) > 0
       THEN [f.closure EXCEPT
               ![1].metrics = MetricsOf(LatestOf(f.resultsData))]
       ELSE current

\* getBrands answers: fetchData runs up to the await of the six analyses, or
\* to its end when the brand has no result.
FetchBrandsForDetailReturn ==
  /\ \E i \in 1..Len(detail.fetches) :
       LET f == detail.fetches[i] IN
       /\ f.pc = "getBrands"
       /\ detail' =
            [detail EXCEPT
               !.allBrands = {b \in BrandIds : b # f.brandId},
               !.brandsForComparison = ComparisonAfterFetch(f),
               !.latestResult = IF Len(f.resultsData) > 0
                                  THEN <<LatestOf(f.resultsData)>> ELSE @,
               !.loading = IF Len(f.resultsData) > 0 THEN @ ELSE FALSE,
               !.fetches = IF Len(f.resultsData) > 0
                             THEN [@ EXCEPT ![i].pc = "analyses"]
                             ELSE RemoveAt(@, i),
               !.outcome = IF Len(f.resultsData) > 0 THEN @ ELSE "no results"]
  /\ DetailOnly

\* getBrand, getResults or getBrands throws: the outer catch of fetchData.
FetchFails ==
  /\ \E i \in 1..Len(detail.fetches) :
       /\ detail.fetches[i].pc \in {"getBrand", "getResults", "getBrands"}
       /\ detail' =
            [detail EXCEPT
               !.error = <<LoadDetailFailedMessage>>, !.loading = FALSE,
               !.fetches = RemoveAt(@, i), !.outcome = "failed"]
  /\ DetailOnly

\* The six analysis requests all answer: the six states are set, then
\* setLoading(false).
FetchAnalysesReturn ==
  /\ \E i \in 1..Len(detail.fetches) :
       LET f == detail.fetches[i] IN
       /\ f.pc = "analyses"
       /\ detail' =
            [detail EXCEPT
               !.analyses = [a \in AnalysisStates |-> <<f.brandId>>],
               !.loading = FALSE, !.fetches = RemoveAt(@, i),
               !.outcome = "analyses set"]
  /\ DetailOnly

\* One of the six analysis requests fails: Promise.all rejects, the inner
\* catch logs, then setLoading(false).
FetchAnalysesFail ==
  /\ \E i \in 1..Len(detail.fetches) :
       /\ detail.fetches[i].pc = "analyses"
       /\ detail' =
            [detail EXCEPT
               !.loading = FALSE, !.fetches = RemoveAt(@, i),
               !.outcome = "analyses failed"]
  /\ DetailOnly

\* The ids of the entries of a comparison list.
IdsOf(list) == {list[i].id : i \in 1..Len(list)}

\* The Select of the comparison tab: no brand (0) or one of allBrands.
HandleComparisonBrandChange ==
  /\ DetailShown
  /\ \E value \in detail.allBrands \cup {0} :
       /\ value # detail.comparisonBrandId
       /\ detail' = [detail EXCEPT !.comparisonBrandId = value]
  /\ DetailOnly

\* handleAddComparisonBrand up to its first await: a brand already in the
\* list is turned down with an alert.
HandleAddComparisonBrand ==
  /\ DetailShown
  /\ detail.comparisonBrandId # 0
  /\ Len(detail.adds) < MaxAdds
  /\ IF detail.comparisonBrandId \in IdsOf(detail.brandsForComparison)
       THEN UNCHANGED detail
       ELSE detail' =
              [detail EXCEPT
                 !.adds = Append(@, [id |-> detail.comparisonBrandId,
                                     closure |-> detail.brandsForComparison])]
  /\ DetailOnly

\* getBrand and getResults of handleAddComparisonBrand have answered: the
\* brand is appended to the closed-over list, or an alert says it has no
\* result.
AddReturns ==
  /\ \E i \in 1..Len(detail.adds) :
       \E resultsData \in ServerResults(detail.adds[i].id) :
       LET add == detail.adds[i]
       IN IF Len(resultsData) > 0
            THEN detail' =
                   [detail EXCEPT
                      !.brandsForComparison =
                        Append(add.closure,
                               [id |-> ServerBrand(add.id).id,
                                metrics |-> MetricsOf(LatestOf(resultsData))]),
                      !.comparisonBrandId = 0,
                      !.adds = RemoveAt(@, i)]
            ELSE detail' = [detail EXCEPT !.adds = RemoveAt(@, i)]
  /\ DetailOnly

\* getBrand or getResults of handleAddComparisonBrand throws: an alert.
AddFails ==
  /\ \E i \in 1..Len(detail.adds) :
       detail' = [detail EXCEPT !.adds = RemoveAt(@, i)]
  /\ DetailOnly

\* handleRemoveComparisonBrand(brandId), called for any entry of the list:
\* the main brand is turned down with an alert.
HandleRemoveComparisonBrand ==
  /\ DetailShown
  /\ \E id \in IdsOf(detail.brandsForComparison) :
       IF id = detail.brand[1].id
         THEN UNCHANGED detail
         ELSE detail' =
                [detail EXCEPT
                   !.brandsForComparison =
                     SelectSeq(@, LAMBDA entry : entry.id # id)]
  /\ DetailOnly

\* The loading of the page: fetchData, and route changes at any moment.
DetailLoadNext ==
  \/ RouteChange
  \/ FetchBrandReturns
  \/ FetchResultsReturn
  \/ FetchBrandsForDetailReturn
  \/ FetchFails
  \/ FetchAnalysesReturn
  \/ FetchAnalysesFail

\* BrandDetail is first rendered on the route of any brand.
DetailPageInit ==
  /\ BackendIdle
  /\ ComparisonInit
  /\ WizardInit
  /\ \E b \in BrandIds : detail = DetailMounted(b)

DetailLoadSpec == DetailPageInit /\ [][DetailLoadNext]_vars

\* The page with its comparison tab; the route changes between loads.
DetailNext ==
  \/ RouteChangeWhenLoaded
  \/ FetchBrandReturns
  \/ FetchResultsReturn
  \/ FetchBrandsForDetailReturn
  \/ FetchFails
  \/ FetchAnalysesReturn
  \/ FetchAnalysesFail
  \/ HandleComparisonBrandChange
  \/ HandleAddComparisonBrand
  \/ AddReturns
  \/ AddFails
  \/ HandleRemoveComparisonBrand

DetailSpec == DetailPageInit /\ [][DetailNext]_vars

\* -------------------------------------------------------------- pure calls
\* n raw items of source s: the first k with text first, the others with rest.
SyntheticItems(s, n, k, first, rest) ==
  [i \in 1..n |->
     [source |-> s, external_id |-> i,
      text |-> IF i <= k THEN first ELSE rest]]

\* The processed datasets of an analysis with n reddit items and, when two
\* holds, one twitter item; the other sources returned nothing.
SampleDatasets(n, two) ==
  [s \in SourceSet |->
     PipelineProcess(
       SyntheticItems(s, IF s = "reddit" THEN n
                         ELSE IF s = "twitter" /\ two THEN 1 ELSE 0,
                      0, "t", "t"))]

\* What the confidence calculator makes of one sample.
Sample(n, two, measured, reply, answered) ==
  LET combined == CombineData(SampleDatasets(n, two), measured)
      enhanced == Enhance(combined, reply, answered)
  IN [total |-> combined.total,
      diversity |-> DiversityFactor(combined),
      den |-> enhanced.den,
      agreement |->
        [m \in Metrics |-> AgreementFactor(combined, enhanced, m)],
      confidence |-> Calculate(combined, enhanced)]

\* The oracle outcomes of the probes: a response, or none (answered FALSE).
ProbeReplies ==
  {<<TRUE, [m \in Metrics |-> Given(0)]>>,
   <<TRUE, [m \in Metrics |-> Given(100)]>>,
   <<FALSE, [m \in Metrics |-> Missing]>>}

\* calculate on two synthetic datasets that differ in sample size only.
ProbeConfidence ==
  /\ probe.op = "none"
  /\ \E na \in 1..MaxSample, nb \in 1..MaxSample, two \in BOOLEAN,
        measured \in Vectors(MeasuredValues), r \in ProbeReplies :
       /\ na < nb
       /\ probe' = [op |-> "calculate",
                    small |-> Sample(na, two, measured, r[2], r[1]),
                    large |-> Sample(nb, two, measured, r[2], r[1])]
  /\ UNCHANGED <<engineVars, pl_input, pl_data, pl_stage, pageVars>>

\* Item counts of the sources the combiner is probed with.
CombineSizes == {1, 2, 10, 30, 50, 90}

\* _combine_data on two sources: n1 items of which c1 are positive and the
\* others neutral, n2 items of which c2 are positive and the others negative.
ProbeCombine ==
  /\ probe.op = "none"
  /\ \E n1 \in CombineSizes, n2 \in CombineSizes :
       \E c1 \in {0, (6 * n1) \div 10, n1}, c2 \in {0, n2 \div 2, n2} :
         LET processed ==
               [s \in {"reddit", "twitter"} |->
                  PipelineProcess(
                    IF s = "reddit"
                      THEN SyntheticItems(s, n1, c1, "good value", "t")
                      ELSE SyntheticItems(s, n2, c2, "good value",
                                          "it broke, refund please"))]
             combined == CombineData(processed, [m \in Metrics |-> 0])
         IN probe' = [op |-> "combine", n1 |-> n1, c1 |-> c1,
                      n2 |-> n2, c2 |-> c2,
                      sentiment |-> combined.sentiment,
                      sentiment_den |-> combined.sentiment_den]
  /\ UNCHANGED <<engineVars, pl_input, pl_data, pl_stage, pageVars>>

ProbeNext ==
  \/ ProbeConfidence
  \/ ProbeCombine

\* The pure functions of the engine, each called once on drawn inputs.
ProbeSpec == Init /\ [][ProbeNext]_vars

\* ------------------------------------------------------------------- claims
Terminated == phase \in {"DONE", "FAILED"}

Returned == result # <<>>

PhaseOrder ==
  <<"COLLECTING", "PROCESSING", "COMBINING", "ENHANCING", "SCORING", "DONE">>

PhaseIndex(p) == CHOOSE i \in 1..Len(PhaseOrder) : PhaseOrder[i] = p

\* Each phase has the output of every earlier phase in hand.
PredecessorsFinished ==
  phase # "FAILED" =>
    LET i == PhaseIndex(phase)
    IN /\ i >= 2 => /\ DOMAIN collected_data = SourceSet
                    /\ \A s \in SourceSet : status[s] = "returned"
       /\ i < 3 => combined_data = <<>>
       /\ i >= 3 => DOMAIN processed_data = SourceSet
       /\ i < 4 => oracle_calls = 0 /\ enhanced_data = <<>>
       /\ i >= 4 => combined_data # <<>>
       /\ i < 5 => enhanced_data = <<>>
       /\ i >= 5 => enhanced_data # <<>> /\ ~oracle_waiting
       /\ i < 6 => result = <<>>
       /\ i >= 6 => result # <<>>

\* C1: the request moves through COLLECTING, PROCESSING, COMBINING,
\* ENHANCING, SCORING, DONE in that order: every change of phase goes to the
\* next phase of the list (or ends the request with an error), so that none
\* is skipped or re-entered, and a phase is entered only when its
\* predecessors have produced their output.
C1_FixedPhaseOrder ==
  /\ []PredecessorsFinished
  /\ [][phase' # phase =>
          \/ phase' = "FAILED"
          \/ /\ phase # "FAILED"
             /\ PhaseIndex(phase) < Len(PhaseOrder)
             /\ phase' = PhaseOrder[PhaseIndex(phase) + 1]]_vars

C1_Witness ==
  /\ phase = "DONE"
  /\ Returned
  /\ oracle_calls = MaxOracleCalls
  /\ \E s \in SourceSet : Len(processed_data[s]) > 0

\* C2: a request in which a source failed while another source produced data
\* still ends in DONE with a result and without an error.
C2_PartialStillDone ==
  ( /\ Terminated
    /\ \E s \in SourceSet : status[s] = "raised"
    /\ \E t \in DOMAIN collected_data : Len(collected_data[t]) > 0 )
  => (phase = "DONE" /\ Returned /\ error = NoError)

\* C3: when every source returned zero items and the oracle gave no
\* response, analyze ends with NoDataAvailable and returns no result.
C3_NoDataAvailable ==
  ( /\ Terminated
    /\ DOMAIN collected_data = SourceSet
    /\ \A s \in SourceSet : Len(collected_data[s]) = 0
    /\ enhanced_data # <<>>
    /\ enhanced_data[1].degraded )
  => (error = "NoDataAvailable" /\ ~Returned)

\* C4: PROCESSING is entered, and any source's data processed, only when the
\* collector of every source has completed or failed; none is still to run
\* or running.
C4_ProcessingAfterAllCollectors ==
  (phase = "PROCESSING" \/ DOMAIN processed_data # {})
  => \A s \in SourceSet : status[s] \in {"returned", "raised"}

C4_Witness ==
  /\ phase = "PROCESSING"
  /\ DOMAIN processed_data # {}
  /\ DOMAIN processed_data # SourceSet

\* C5: the COLLECTING phase always ends, also when a source never answers.
C5_CollectingEnds == <>(phase # "COLLECTING")

\* C6: no result is ever returned for a request the caller has cancelled
\* while it was in flight.
C6_NoResultWhenCancelled == cancelled => ~Returned

InSeq(x, q) == \E i \in 1..Len(q) : q[i] = x

\* C7: in a returned result every source that was collected, also with zero
\* items, is in data_sources and in data_counts with its item count (0 for
\* an empty collection), and a source whose collection failed is in neither.
C7_ZeroItemsListedFailedOmitted ==
  Returned =>
    \A s \in SourceSet :
      /\ status[s] = "returned" =>
           /\ InSeq(s, result[1].data_sources)
           /\ s \in DOMAIN result[1].data_counts
           /\ result[1].data_counts[s] = Len(collected_data[s])
      /\ status[s] # "returned" =>
           /\ ~InSeq(s, result[1].data_sources)
           /\ s \notin DOMAIN result[1].data_counts

C7_Witness ==
  /\ Returned
  /\ \E s \in SourceSet :
       /\ collected_data[s] = <<>>
       /\ InSeq(s, result[1].data_sources)
       /\ result[1].data_counts[s] = 0
  /\ \E t \in SourceSet : result[1].data_counts[t] > 0

\* C8: the weights are 10, 15, 20, 30 and 25 percent, sum to 100 percent,
\* and the overall score of a result is the sum of weight times metric score.
C8_WeightedSum ==
  /\ Weights["conversational_depth"] = 10
  /\ Weights["community_spread"] = 15
  /\ Weights["emotional_intensity"] = 20
  /\ Weights["intent_signals"] = 30
  /\ Weights["advocacy_language"] = 25
  /\ SumOver(Metrics, Weights) = 100
  /\ Returned =>
       result[1].metrics.overall_score =
           10 * result[1].metrics.scores["conversational_depth"]
         + 15 * result[1].metrics.scores["community_spread"]
         + 20 * result[1].metrics.scores["emotional_intensity"]
         + 30 * result[1].metrics.scores["intent_signals"]
         + 25 * result[1].metrics.scores["advocacy_language"]

C8_Witness ==
  /\ Returned
  /\ result[1].metrics.scores["intent_signals"] > 0
  /\ result[1].metrics.scores["intent_signals"]
       # result[1].metrics.scores["advocacy_language"]
  /\ result[1].metrics.overall_score > 0

\* C9: the overall score and the five metric scores of a result are within
\* [0,100], also when the oracle sent a score outside [0,100] or none.
C9_ScoresInRange ==
  Returned =>
    /\ result[1].metrics.overall_score >= 0
    /\ result[1].metrics.overall_score <= 100 * 100 * result[1].metrics.den
    /\ \A m \in Metrics :
         /\ result[1].metrics.scores[m] >= 0
         /\ result[1].metrics.scores[m] <= 100 * result[1].metrics.den

C9_Witness ==
  /\ Returned
  /\ oracle_response # <<>>
  /\ \E m \in Metrics : oracle_response[1][m] = Given(150)
  /\ \E m \in Metrics : oracle_response[1][m] = Missing

\* C10: every confidence score is the product of the sample-size factor,
\* the source-diversity factor and the agreement factor, each within [0,1],
\* hence itself within [0,1].
C10_ConfidenceIsProduct ==
  Returned =>
    LET r == result[1]
        total == SumOver(SourceSet, r.data_counts)
        sample == IF total < TargetCount THEN total ELSE TargetCount
        diversity == Cardinality({s \in SourceSet : r.data_counts[s] > 0})
    IN \A m \in Metrics :
         LET divergence ==
               IF total = 0 THEN 0
               ELSE Abs(combined_data[1].measured[m] * r.metrics.den
                          - r.metrics.scores[m])
             agreement ==
               IF oracle_response = <<>> THEN DegradedAgreement * r.metrics.den
               ELSE 100 * r.metrics.den - divergence
         IN /\ 0 <= sample /\ sample <= TargetCount
            /\ 0 <= diversity /\ diversity <= Len(Sources)
            /\ 0 <= agreement /\ agreement <= 100 * r.metrics.den
            /\ r.confidence_scores[m] = sample * diversity * agreement
            /\ 0 <= r.confidence_scores[m]
            /\ r.confidence_scores[m] <= ConfDen(total)

C10_Witness ==
  /\ Returned
  /\ \E m \in Metrics :
       /\ result[1].confidence_scores[m] > 0
       /\ result[1].confidence_scores[m]
            < ConfDen(SumOver(SourceSet, result[1].data_counts))
  /\ \E m \in Metrics :
       result[1].confidence_scores[m]
         = ConfDen(SumOver(SourceSet, result[1].data_counts))

\* Both samples of a probe of calculate have the same source diversity and,
\* for metric m, the same agreement factor.
SameButSampleSize(m) ==
  /\ probe.small.total < probe.large.total
  /\ probe.small.diversity = probe.large.diversity
  /\ probe.small.agreement[m] * probe.large.den
       = probe.large.agreement[m] * probe.small.den

AllSourcesEmpty ==
  /\ DOMAIN collected_data = SourceSet
  /\ \A s \in SourceSet : collected_data[s] = <<>>

\* C12: when every source returned zero items and the oracle responded, the
\* request ends with a result in which every metric the oracle gave a valid
\* score for has exactly that score, and every confidence is at most 0.3.
C12_AIOnlyLowConfidence ==
  (Terminated /\ AllSourcesEmpty /\ oracle_response # <<>>) =>
    /\ Returned
    /\ \A m \in Metrics :
         /\ ValidScore(oracle_response[1][m]) =>
              result[1].metrics.scores[m]
                = oracle_response[1][m].score * result[1].metrics.den
         /\ 10 * result[1].confidence_scores[m] <= 3 * ConfDen(0)

C12_Witness ==
  /\ Returned
  /\ AllSourcesEmpty
  /\ oracle_response # <<>>
  /\ oracle_response[1]["intent_signals"] = Given(100)
  /\ result[1].metrics.scores["intent_signals"] = 100 * result[1].metrics.den
  /\ oracle_response[1]["advocacy_language"] = Given(0)
  /\ result[1].metrics.scores["advocacy_language"] = 0

\* C13: the combined positive share of two sources with n1 and n2 items and
\* positive shares c1/n1 and c2/n2 is (n1 * c1/n1 + n2 * c2/n2) / (n1 + n2),
\* each item one vote: 37.5 percent for 50 items at 60 percent and 30 items
\* at 0 percent, and the 90/10 blend, not 50/50, for 90 positive items
\* against 10 negative ones.
C13_WeightedByItemCount ==
  probe.op = "combine" =>
    /\ probe.sentiment["positive"] * (probe.n1 + probe.n2)
         = (probe.c1 + probe.c2) * probe.sentiment_den
    /\ (probe.n1 = 50 /\ probe.c1 = 30 /\ probe.n2 = 30 /\ probe.c2 = 0) =>
         /\ 1000 * probe.sentiment["positive"] = 375 * probe.sentiment_den
         /\ 1000 * probe.sentiment["neutral"] = 250 * probe.sentiment_den
         /\ 1000 * probe.sentiment["very_negative"] = 375 * probe.sentiment_den
    /\ (probe.n1 = 90 /\ probe.c1 = 90 /\ probe.n2 = 10 /\ probe.c2 = 0) =>
         /\ 10 * probe.sentiment["positive"] = 9 * probe.sentiment_den
         /\ 10 * probe.sentiment["very_negative"] = 1 * probe.sentiment_den
         /\ 2 * probe.sentiment["positive"] # probe.sentiment_den

C13_Witness ==
  /\ probe.op = "combine"
  /\ probe.n1 = 50 /\ probe.c1 = 30 /\ probe.n2 = 30 /\ probe.c2 = 0
  /\ probe.sentiment_den = 80
  /\ probe.sentiment["positive"] = 30

\* C14: a metric with a measured and an AI value gets the blend
\* w_real * measured + w_ai * ai with w_real + w_ai = 1; w_real is positive
\* as soon as there is one real item, grows with the sample size up to the
\* cap and stays the same above it.
C14_ReliabilityWeightedBlend ==
  /\ \A n \in 0..(SampleCap + 2) :
       /\ RealWeight(n) + AIWeight(n) = ScoreDen(n)
       /\ RealWeight(n) >= 0 /\ AIWeight(n) >= 0
       /\ n > 0 => RealWeight(n) > 0
       /\ n < SampleCap =>
            RealWeight(n) * ScoreDen(n + 1) < RealWeight(n + 1) * ScoreDen(n)
       /\ n >= SampleCap =>
            RealWeight(n) * ScoreDen(n + 1) = RealWeight(n + 1) * ScoreDen(n)
  /\ (Returned /\ combined_data[1].total > 0 /\ oracle_response # <<>>) =>
       \A m \in Metrics :
         ValidScore(oracle_response[1][m]) =>
           result[1].metrics.scores[m]
             = RealWeight(combined_data[1].total) * combined_data[1].measured[m]
               + AIWeight(combined_data[1].total) * oracle_response[1][m].score

C14_Witness ==
  /\ Returned
  /\ combined_data[1].total > 0
  /\ oracle_response # <<>>
  /\ oracle_response[1]["intent_signals"] = Given(100)
  /\ combined_data[1].measured["intent_signals"] = 0
  /\ result[1].metrics.scores["intent_signals"] > 0
  /\ result[1].metrics.scores["intent_signals"] < 100 * result[1].metrics.den

\* Both oracle requests failed and the enhancer has returned.
OracleUnavailable ==
  /\ phase \in {"SCORING", "DONE"}
  /\ oracle_calls = MaxOracleCalls
  /\ oracle_response = <<>>

C16_OneOracleRequestOneRetry ==
  /\ oracle_calls \in 0..2
  /\ oracle_calls > 0 => phase \in {"ENHANCING", "SCORING", "DONE"}
  /\ phase \in {"SCORING", "DONE"} =>
       /\ oracle_calls \in 1..2
       /\ oracle_response = <<>> <=> enhanced_data[1].degraded
       /\ enhanced_data[1].degraded => oracle_calls = 2
  /\ (phase = "ENHANCING" /\ oracle_calls = 1 /\ ~oracle_waiting) =>
       /\ enhanced_data = <<>>
       /\ ENABLED CallOracle

C16_Witness ==
  /\ Returned
  /\ oracle_calls = 2
  /\ oracle_response # <<>>
  /\ Cardinality({s \in SourceSet : collected_data[s] # <<>>}) >= 2

\* The fields each processor adds to an item.
StageFields ==
  [TextProcessor |-> {"normalized_text"},
   SentimentProcessor |-> {"sentiment_score", "sentiment_label"},
   TopicProcessor |-> {"topics"},
   IntentProcessor |-> {"intent_category"}]

\* C17: the processors run in list order, each on the output of the one
\* before, and each only adds its own fields: the items are as many and in
\* the same order as before, and every field an item had keeps its value.
C17_StagesOnlyAddFields ==
  [][pl_stage' # pl_stage =>
       /\ pl_stage' = pl_stage + 1
       /\ Len(pl_data') = Len(pl_data)
       /\ \A i \in 1..Len(pl_data) :
            /\ \A f \in DOMAIN pl_data[i] :
                 /\ f \in DOMAIN pl_data'[i]
                 /\ pl_data'[i][f] = pl_data[i][f]
            /\ DOMAIN pl_data'[i] \ DOMAIN pl_data[i]
                 = StageFields[Processors[pl_stage']]]_vars

C17_Witness ==
  /\ pl_stage = Len(Processors)
  /\ Len(pl_data) = 2
  /\ pl_data[1].text = "  GOOD value "
  /\ pl_data[1].normalized_text = <<"good value">>
  /\ pl_data[1].sentiment_label = <<"positive">>
  /\ pl_data[2].external_id = 2
  /\ pl_data[2].intent_category = <<"conversion">>

AnnotationFields ==
  {"normalized_text", "sentiment_score", "sentiment_label", "topics",
   "intent_category"}

\* C18: when a stage fails on an item of the batch, process still returns
\* every item of the batch, in order; the failing item has the fields of that
\* stage marked unknown and the fields of the other stages set, and every
\* other item has all its fields set.
C18_ItemFailureDoesNotAbort ==
  LET out == PipelineProcess(pl_input)
  IN /\ Len(out) = Len(pl_input)
     /\ pl_stage = Len(Processors) => pl_data = out
     /\ \A i \in 1..Len(pl_input) :
          /\ out[i].external_id = pl_input[i].external_id
          /\ out[i].text = pl_input[i].text
          /\ AnnotationFields \subseteq DOMAIN out[i]
          /\ \A f \in AnnotationFields :
               out[i][f] = <<>> <=>
                 /\ pl_input[i].text \in Unclassifiable
                 /\ f \in StageFields["SentimentProcessor"]

C18_Witness ==
  /\ pl_stage = Len(Processors)
  /\ Len(pl_input) = 2
  /\ pl_input[1].text = "<garbled>"
  /\ pl_data[1].sentiment_label = <<>>
  /\ pl_data[1].topics = <<{}>>
  /\ pl_data[1].intent_category = <<"none">>
  /\ pl_data[2].sentiment_label = <<"very_positive">>

\* C19: the call of a collector always comes to an end, with the items of the
\* source or with the source counted as failed.
C19_CollectionTerminates ==
  \A s \in SourceSet :
    (status[s] = "running") ~> (status[s] \in {"returned", "raised"})

\* C20: when some source has no credential and another source can be
\* collected, the request is not turned down for its keys and the source
\* without credential does not end the analysis with an error.
C20_MissingCredentialSkipped ==
  (\E s \in SourceSet : ~HasCredential(s)) /\ (\E t \in SourceSet : HasCredential(t))
    => /\ error # InvalidApiKeys
       /\ \A s \in SourceSet : ~HasCredential(s) => status[s] # "raised"

\* C21: a compareBrands request is sent only with two or more brands
\* selected, and carries them; a call of handleCompare with fewer than two
\* brands selected sets the error message, sends no request and leaves
\* comparisonResult as it was.
C21_CompareNeedsTwoBrands ==
  [][/\ Len(comparison'.requests) > Len(comparison.requests) =>
          /\ Cardinality(comparison.selectedBrands) >= 2
          /\ comparison'.requests =
               Append(comparison.requests, comparison.selectedBrands)
     /\ ( /\ comparison'.event = "handleCompare"
          /\ Cardinality(comparison.selectedBrands) < 2 ) =>
          /\ comparison'.error = <<SelectTwoMessage>>
          /\ comparison'.requests = comparison.requests
          /\ comparison'.comparisonResult = comparison.comparisonResult
          /\ comparison'.comparing = comparison.comparing]_vars

C21_Witness ==
  /\ comparison.event = "handleCompare"
  /\ Cardinality(comparison.selectedBrands) = 1
  /\ comparison.error = <<SelectTwoMessage>>
  /\ comparison.comparisonResult # Null
  /\ comparison.requests = <<>>

\* C25: activeStep is 0, 1 or 2, and on step 2 the result is set.
C25_StepInRangeResultOnLastStep ==
  /\ wizard.activeStep \in {0, 1, 2}
  /\ wizard.activeStep = 2 => wizard.result # Null

C25_Witness ==
  /\ wizard.activeStep = 2
  /\ wizard.event = "analyzeBrand returned"
  /\ wizard.result # Null
  /\ wizard.result[1].brand_name = <<"a", " ">>

\* C26: at most one analyzeBrand request is in flight, loading is true while
\* it is, and the step that ends a request leaves loading false.
C26_OneRequestInFlight ==
  [][/\ Len(wizard'.requests) <= 1
     /\ Len(wizard'.requests) = 1 => wizard'.loading
     /\ Len(wizard'.requests) < Len(wizard.requests) => ~wizard'.loading]_vars

C26_Witness ==
  /\ Len(wizard.requests) = 1
  /\ wizard.loading
  /\ wizard.result # Null

\* C27: the step on which analyzeBrand fails sets the error message and
\* loading to false and leaves activeStep (the confirm step), result and
\* formData as they were; the step that sends a request clears the error.
C27_FailureKeepsWizardState ==
  [][/\ wizard'.event = "analyzeBrand failed" /\ wizard' # wizard =>
          /\ wizard'.error = <<AnalyzeFailedMessage>>
          /\ ~wizard'.loading
          /\ wizard'.activeStep = wizard.activeStep
          /\ wizard'.activeStep = 1
          /\ wizard'.result = wizard.result
          /\ wizard'.formData = wizard.formData
     /\ Len(wizard'.requests) > Len(wizard.requests) =>
          wizard'.error = Null]_vars

C27_Witness ==
  /\ wizard.event = "analyzeBrand failed"
  /\ wizard.error = <<AnalyzeFailedMessage>>
  /\ wizard.result # Null
  /\ wizard.activeStep = 1
  /\ ~wizard.loading

\* The names typed and industries chosen that pass validateStep.
FilledIn(form) ==
  /\ Trim(form.brand_name) # <<>>
  /\ Trim(form.industry) # <<>>
  /\ form.mode = "ai"

\* C28: every analyzeBrand request carries a brand_name and an industry that
\* are not blank and the mode 'ai'; past step 0 the form is filled in, and the
\* form changes on step 0 only.
C28_RequestsCarryFilledForm ==
  [][/\ \A i \in 1..Len(wizard'.requests) : FilledIn(wizard'.requests[i])
     /\ wizard'.activeStep # 0 => FilledIn(wizard'.formData)
     /\ wizard'.formData # wizard.formData => wizard.activeStep = 0]_vars

C28_Witness ==
  /\ Len(wizard.requests) = 1
  /\ wizard.requests[1].brand_name = <<" ", "a">>
  /\ wizard.requests[1].additional_context = <<" ">>
  /\ wizard.activeStep = 1

\* Every entry of the list has an id of its own.
NoDuplicateIds(list) ==
  \A i, j \in 1..Len(list) : list[i].id = list[j].id => i = j

\* The page has finished loading the brand of the route.
DetailLoaded == DetailShown /\ detail.fetches = <<>>

\* C22: once the page has loaded, brandsForComparison holds the main brand
\* and no two entries with the same id, whatever was added and removed.
C22_MainBrandKeptNoDuplicates ==
  DetailLoaded =>
    /\ detail.brandId \in IdsOf(detail.brandsForComparison)
    /\ NoDuplicateIds(detail.brandsForComparison)

\* C23: when the page has loaded a brand that has a result, the entry of the
\* main brand holds the five metrics of the result with the greatest
\* timestamp.
C23_MainBrandHasLatestMetrics ==
  DetailLoaded /\ Len(detail.results) > 0 =>
    \A i \in 1..Len(detail.brandsForComparison) :
      detail.brandsForComparison[i].id = detail.brandId =>
        detail.brandsForComparison[i].metrics =
          MetricsOf(LatestOf(detail.results))

\* The six analysis states are all null or all set.
AnalysesAllOrNone ==
  \/ \A a \in AnalysisStates : detail.analyses[a] = Null
  \/ \A a \in AnalysisStates : detail.analyses[a] # Null

\* C24: when the load of the page has ended with one of the six analysis
\* requests failing, loading is false, error is unset, brand, results and
\* latestResult are set and the six analysis states are all null.
C24_AnalysisFailureNotFatal ==
  /\ AnalysesAllOrNone
  /\ detail.fetches = <<>> /\ detail.outcome = "analyses failed" =>
       /\ ~detail.loading
       /\ detail.error = Null
       /\ detail.brand # Null
       /\ detail.results # <<>>
       /\ detail.latestResult # Null
       /\ \A a \in AnalysisStates : detail.analyses[a] = Null

\* C29: once every fetch has ended without error, the brand, the results and
\* the latest result shown are those of the brand of the route.
C29_LateResponseDoesNotOverwrite ==
  detail.fetches = <<>> /\ detail.error = Null =>
    /\ detail.brand = <<ServerBrand(detail.brandId)>>
    /\ \A i \in 1..Len(detail.results) :
         detail.results[i].brand_id = detail.brandId
    /\ detail.results # <<>> =>
         /\ detail.latestResult # Null
         /\ detail.latestResult[1].brand_id = detail.brandId

====
